---- MODULE Spec2Model ----
(***************************************************************************)
(* Model of the two grid solvers of AdventOfCode_2021: day 9 (low points   *)
(* and basins, with its UnionFind) and day 11 (the flashing octopus grid). *)
(* Vectors are functions on 0..len-1, as the code indexes them.            *)
(***************************************************************************)
EXTENDS Integers, Sequences, FiniteSets, TLC

(***************************************************************************)
(* Bounds of the model.                                                    *)
(***************************************************************************)
\* new(n) is explored with every pair of indices for n <= MaxN
MaxN == 4
\* and with the pairs of DeepPairs for n = DeepN, where trees of depth 3 arise
DeepN == 8
\* the order of union calls is explored for up to MaxCalls calls
MaxCalls == 3
\* day 9 part_2 is explored on the example and on every grid of up to MaxCells9 cells
MaxCells9 == 9
\* one step of day 11 is explored on every grid of up to MaxCells11 cells
MaxCells11 == 6
\* part_1 and part_2 of day 11 are explored on the example and on every grid of
\* up to MaxCellsLoop cells, part_2 for up to MaxT steps
MaxCellsLoop == 2
MaxT == 200

VARIABLES
    nodes,      \* UnionFind.nodes: index -> [parent, size]
    joined,     \* history: the pairs {x, y}, x # y, passed to union so far
    ret,        \* history: the last call and what it returned
    calls,      \* a caller's list of union calls, as pairs <<x, y>>
    pending,    \* the positions of calls not made yet
    grid9,      \* day 9: the Grid<u8> part_2 is given
    pc9,        \* day 9 part_2: "scan", "rank" or "done"
    index9,     \* day 9 part_2: the index of the cell the scan is at
    sizes9,     \* day 9 part_2: what the root_sizes() iterator has yet to yield
    biggest,    \* day 9 part_2: the heap, smallest size first
    result9,    \* day 9 part_2: the returned product
    input11,    \* day 11: the Grid<u8> part_1 or part_2 is given
    grid11,     \* day 11: the Grid<u8> step works on
    queue,      \* day 11: the VecDeque step works on
    flashes,    \* day 11 step: the local flashes
    pc11,       \* day 11: "call", "drain", "returned", "done", "capped", "panic"
    part,       \* day 11: 1 in part_1, 2 in part_2, 0 when step is called alone
    t,          \* day 11: the loop variable of part_1 (from 0) or part_2 (from 1)
    total,      \* day 11 part_1: the local total
    result11,   \* day 11: what part_1 or part_2 returned
    fired,      \* history: the counts the step calls returned, first to last
    pushed,     \* history: the indices queued since step was called, in order
    given,      \* Grid: the data, width and height a caller passes to Grid::new
    made,       \* Grid: what Grid::new returned, a Grid or Panicked
    pcG,        \* Grid: "new" before the call of Grid::new, "made" after it
    read,       \* Grid: the last grid[[row, col]] and its value, or None
    text        \* Grid: the input parse is given, a sequence of bytes

ufVars == <<nodes, joined, ret>>
orderVars == <<calls, pending>>
d9Vars == <<grid9, pc9, index9, sizes9, biggest, result9>>
d11Vars ==
    <<input11, grid11, queue, flashes, pc11, part, t, total, result11, fired, pushed>>
gridVars == <<given, made, pcG, read, text>>
vars == <<ufVars, orderVars, d9Vars, d11Vars, gridVars>>

\* what each specification leaves alone
exceptUF == <<orderVars, d9Vars, d11Vars, gridVars>>
exceptOrder == <<d9Vars, d11Vars, gridVars>>
exceptD9 == <<orderVars, d11Vars, gridVars>>
exceptD11 == <<ufVars, orderVars, d9Vars, gridVars>>
exceptGrid == <<ufVars, orderVars, d9Vars, d11Vars>>

(***************************************************************************)
(* Bytes                                                                   *)
(***************************************************************************)
NL == 10
B0 == 48
B9 == 57
Colon == 58

\* a Vec from a sequence: indices from 0
ToVec(s) == [i \in 0..(Len(s) - 1) |-> s[i + 1]]

(***************************************************************************)
(* day_09.rs: Grid (day_11.rs holds a copy of new and index)               *)
(***************************************************************************)
\* the marker of a call that panicked
Panic == -1

\* what a call of Grid::new that panicked leaves in place of a Grid
Panicked == [panicked |-> TRUE]

\* Grid::new without its assert_eq!
GridNewNoAssert(data, width, height) ==
    [data |-> ToVec(data), width |-> width, height |-> height]

\* Grid::new; Panicked when assert_eq! fails
GridNew(data, width, height) ==
    IF width * height = Len(data)
    THEN [data |-> ToVec(data), width |-> width, height |-> height]
    ELSE Panicked

\* grid[[row, col]] reading the data column by column
GridIndexTransposed(grid, row, col) ==
    IF col \in 0..(grid.width - 1) /\ row \in 0..(grid.height - 1)
    THEN grid.data[col * grid.height + row]
    ELSE Panic

\* impl Index<[usize; 2]>: grid[[row, col]]; Panic when assert! fails
GridIndex(grid, row, col) ==
    IF col \in 0..(grid.width - 1) /\ row \in 0..(grid.height - 1)
    THEN grid.data[row * grid.width + col]
    ELSE Panic

(***************************************************************************)
(* day_09.rs: UnionFind                                                    *)
(***************************************************************************)
NumNodes(ns) == Cardinality(DOMAIN ns)

\* UnionFind::new
new(size) == [parent \in 0..(size - 1) |-> [parent |-> parent, size |-> 1]]

\* the while loop of UnionFind::find; yields the nodes and the returned index
RECURSIVE FindLoopDetach(_, _, _)
FindLoopDetach(ns, index, parent) ==
    IF index = parent
    THEN [nodes |-> ns, index |-> index]
    ELSE LET grand_parent == ns[parent].parent
             ns2 == [ns EXCEPT ![index].parent = index]
         IN  FindLoopDetach(ns2, grand_parent, ns2[grand_parent].parent)

RECURSIVE FindLoop(_, _, _)
FindLoop(ns, index, parent) ==
    IF index = parent
    THEN [nodes |-> ns, index |-> index]
    ELSE LET grand_parent == ns[parent].parent
             ns2 == [ns EXCEPT ![index].parent = grand_parent]
         IN  FindLoop(ns2, grand_parent, ns2[grand_parent].parent)

\* UnionFind::find
find(ns, index) == FindLoop(ns, index, ns[index].parent)

\* UnionFind::union with the roots not looked up
UnionNoFind(ns, index1, index2) ==
    IF index1 = index2
    THEN [nodes |-> ns, ok |-> FALSE]
    ELSE LET swap == ns[index1].size < ns[index2].size
             i1 == IF swap THEN index2 ELSE index1
             i2 == IF swap THEN index1 ELSE index2
             ns3 == [ns EXCEPT ![i2].parent = i1]
         IN  [nodes |-> [ns3 EXCEPT ![i1].size = ns3[i1].size + ns3[i2].size],
              ok |-> TRUE]

\* UnionFind::union with the sizes added into the attached root
UnionSizeIntoChild(ns, index1, index2) ==
    LET f1 == find(ns, index1)
        f2 == find(f1.nodes, index2)
        ns2 == f2.nodes
    IN  IF f1.index = f2.index
        THEN [nodes |-> ns2, ok |-> FALSE]
        ELSE LET swap == ns2[f1.index].size < ns2[f2.index].size
                 i1 == IF swap THEN f2.index ELSE f1.index
                 i2 == IF swap THEN f1.index ELSE f2.index
                 ns3 == [ns2 EXCEPT ![i2].parent = i1]
             IN  [nodes |-> [ns3 EXCEPT ![i2].size = ns3[i1].size + ns3[i2].size],
                  ok |-> TRUE]

\* UnionFind::union with the surviving root's size overwritten, not added to
UnionSizeAssign(ns, index1, index2) ==
    LET f1 == find(ns, index1)
        f2 == find(f1.nodes, index2)
        ns2 == f2.nodes
    IN  IF f1.index = f2.index
        THEN [nodes |-> ns2, ok |-> FALSE]
        ELSE LET swap == ns2[f1.index].size < ns2[f2.index].size
                 i1 == IF swap THEN f2.index ELSE f1.index
                 i2 == IF swap THEN f1.index ELSE f2.index
                 ns3 == [ns2 EXCEPT ![i2].parent = i1]
             IN  [nodes |-> [ns3 EXCEPT ![i1].size = ns3[i2].size],
                  ok |-> TRUE]

\* UnionFind::union without the early return on equal roots
UnionNoEarlyReturn(ns, index1, index2) ==
    LET f1 == find(ns, index1)
        f2 == find(f1.nodes, index2)
        ns2 == f2.nodes
        swap == ns2[f1.index].size < ns2[f2.index].size
        i1 == IF swap THEN f2.index ELSE f1.index
        i2 == IF swap THEN f1.index ELSE f2.index
        ns3 == [ns2 EXCEPT ![i2].parent = i1]
    IN  [nodes |-> [ns3 EXCEPT ![i1].size = ns3[i1].size + ns3[i2].size],
         ok |-> TRUE]

\* UnionFind::union with <= in place of < where the sizes are compared
UnionTieSwaps(ns, index1, index2) ==
    LET f1 == find(ns, index1)
        f2 == find(f1.nodes, index2)
        ns2 == f2.nodes
    IN  IF f1.index = f2.index
        THEN [nodes |-> ns2, ok |-> FALSE]
        ELSE LET swap == ns2[f1.index].size <= ns2[f2.index].size
                 i1 == IF swap THEN f2.index ELSE f1.index
                 i2 == IF swap THEN f1.index ELSE f2.index
                 ns3 == [ns2 EXCEPT ![i2].parent = i1]
             IN  [nodes |-> [ns3 EXCEPT ![i1].size = ns3[i1].size + ns3[i2].size],
                  ok |-> TRUE]

\* UnionFind::union with > in place of < where the sizes are compared: the
\* root of the larger set goes under the root of the smaller one
UnionLargerUnderSmaller(ns, index1, index2) ==
    LET f1 == find(ns, index1)
        f2 == find(f1.nodes, index2)
        ns2 == f2.nodes
    IN  IF f1.index = f2.index
        THEN [nodes |-> ns2, ok |-> FALSE]
        ELSE LET swap == ns2[f1.index].size > ns2[f2.index].size
                 i1 == IF swap THEN f2.index ELSE f1.index
                 i2 == IF swap THEN f1.index ELSE f2.index
                 ns3 == [ns2 EXCEPT ![i2].parent = i1]
             IN  [nodes |-> [ns3 EXCEPT ![i1].size = ns3[i1].size + ns3[i2].size],
                  ok |-> TRUE]

\* UnionFind::union; yields the nodes and the returned bool
union(ns, index1, index2) ==
    LET f1 == find(ns, index1)
        f2 == find(f1.nodes, index2)
        ns2 == f2.nodes
    IN  IF f1.index = f2.index
        THEN [nodes |-> ns2, ok |-> FALSE]
        ELSE LET swap == ns2[f1.index].size < ns2[f2.index].size
                 i1 == IF swap THEN f2.index ELSE f1.index
                 i2 == IF swap THEN f1.index ELSE f2.index
                 ns3 == [ns2 EXCEPT ![i2].parent = i1]
             IN  [nodes |-> [ns3 EXCEPT ![i1].size = ns3[i1].size + ns3[i2].size],
                  ok |-> TRUE]

\* UnionFind::root_sizes: the sizes of the nodes that are their own parent, in
\* the order of the indices, which is the order the iterator yields them in
root_sizes(ns) ==
    LET roots == SelectSeq([k \in 1..NumNodes(ns) |-> k - 1],
                           LAMBDA ix : ns[ix].parent = ix)
    IN  [k \in 1..Len(roots) |-> ns[roots[k]].size]

(***************************************************************************)
(* The UnionFind driven by any caller: Spec                                *)
(***************************************************************************)
\* the pairs union is called with when n = DeepN
DeepPairs ==
    {<<0, 1>>, <<2, 3>>, <<4, 5>>, <<6, 7>>, <<0, 2>>, <<4, 6>>, <<0, 4>>, <<7, 3>>}

UnionArgs(n) ==
    IF n = DeepN THEN DeepPairs ELSE (0..(n - 1)) \X (0..(n - 1))

\* ok: the bool a union returned; changed: whether the call rewrote nodes
Returned(op, ok, changed) == [op |-> op, ok |-> ok, changed |-> changed]

NoCaller == calls = <<>> /\ pending = {}

NoDay9 ==
    /\ grid9 = [data |-> <<>>, width |-> 0, height |-> 0]
    /\ pc9 = "off"
    /\ index9 = 0
    /\ sizes9 = <<>>
    /\ biggest = <<>>
    /\ result9 = 0

NoDay11 ==
    /\ input11 = [data |-> <<>>, width |-> 0, height |-> 0]
    /\ grid11 = input11
    /\ queue = <<>>
    /\ flashes = 0
    /\ pc11 = "off"
    /\ part = 0
    /\ t = 0
    /\ total = 0
    /\ result11 = 0
    /\ fired = <<>>
    /\ pushed = <<>>

NoGrid ==
    /\ given = [data |-> <<>>, width |-> 0, height |-> 0]
    /\ made = Panicked
    /\ pcG = "off"
    /\ read = [some |-> FALSE]
    /\ text = <<>>

InitUF ==
    /\ \E n \in (0..MaxN) \cup {DeepN} : nodes = new(n)
    /\ joined = {}
    /\ ret = Returned("new", FALSE, FALSE)
    /\ NoCaller
    /\ NoDay9
    /\ NoDay11
    /\ NoGrid

Find(x) ==
    LET f == find(nodes, x)
    IN  /\ nodes' = f.nodes
        /\ ret' = Returned("find", FALSE, f.nodes # nodes)
        /\ UNCHANGED joined

Union(x, y) ==
    LET u == union(nodes, x, y)
    IN  /\ nodes' = u.nodes
        /\ joined' = IF x = y THEN joined ELSE joined \cup {{x, y}}
        /\ ret' = Returned("union", u.ok, u.nodes # nodes)

NextUF ==
    \/ \E x \in DOMAIN nodes : Find(x) /\ UNCHANGED exceptUF
    \/ \E p \in UnionArgs(NumNodes(nodes)) :
        Union(p[1], p[2]) /\ UNCHANGED exceptUF

Spec == InitUF /\ [][NextUF]_vars

(***************************************************************************)
(* One list of union calls made in any order: SpecOrder                    *)
(***************************************************************************)
\* the lists of k pairs over 0..n-1, one list per multiset of pairs
CallLists(n, k) ==
    {s \in [1..k -> (0..(n - 1)) \X (0..(n - 1))] :
        \A i \in 1..(k - 1) :
            s[i][1] * n + s[i][2] <= s[i + 1][1] * n + s[i + 1][2]}

InitOrder ==
    /\ \E n \in 1..MaxN :
        /\ nodes = new(n)
        /\ \E k \in 0..MaxCalls : calls \in CallLists(n, k)
    /\ pending = DOMAIN calls
    /\ joined = {}
    /\ ret = Returned("new", FALSE, FALSE)
    /\ NoDay9
    /\ NoDay11
    /\ NoGrid

\* the caller makes the call at position k of its list
Call(k) ==
    /\ k \in pending
    /\ Union(calls[k][1], calls[k][2])
    /\ pending' = pending \ {k}
    /\ UNCHANGED <<calls, exceptOrder>>

NextOrder == \E k \in DOMAIN calls : Call(k)

SpecOrder == InitOrder /\ [][NextOrder]_vars

(***************************************************************************)
(* day_09.rs: parse and part_2                                             *)
(***************************************************************************)
\* the elements of the set of numbers S, smallest first
Ascending(S) ==
    [k \in 1..Cardinality(S) |->
        CHOOSE i \in S : Cardinality({j \in S : j <= i}) = k]

\* parse. input.split(|&ch| ch == b'\n') yields one row more than there are
\* newlines, the last one being what follows the last newline; the loop leaves
\* width at the length of that last row, height at the number of rows, and data
\* at the rows one after the other, which is the input without its newlines.
parse(input) ==
    LET newlines == {i \in 1..Len(input) : input[i] = NL}
        last == IF newlines = {} THEN 0
                ELSE Ascending(newlines)[Cardinality(newlines)]
    IN  GridNew(SelectSeq(input, LAMBDA ch : ch # NL),
                Len(input) - last,
                Cardinality(newlines) + 1)

\* the text of a test's EXAMPLE, from its rows of digits
RECURSIVE ExampleText(_)
ExampleText(rows) ==
    LET row == [k \in 1..Len(Head(rows)) |-> B0 + Head(rows)[k]]
    IN  IF Len(rows) = 1
        THEN row
        ELSE row \o <<NL>> \o ExampleText(Tail(rows))

\* tests::EXAMPLE of day_09.rs
EXAMPLE9 ==
    ExampleText(<< <<2, 1, 9, 9, 9, 4, 3, 2, 1, 0>>,
                   <<3, 9, 8, 7, 8, 9, 4, 9, 2, 1>>,
                   <<9, 8, 5, 6, 7, 8, 9, 8, 9, 2>>,
                   <<8, 7, 6, 7, 8, 9, 6, 7, 8, 9>>,
                   <<9, 8, 9, 9, 9, 6, 5, 6, 7, 8>> >>)

\* the union calls of part_2's loop body at one cell, in order, with '9' cells
\* joined like the others
CellUnionsNoNineTest(grid, index) ==
    LET r == index \div grid.width
        c == index % grid.width
    IN  (IF r > 0 THEN << <<index - grid.width, index>> >> ELSE <<>>)
        \o (IF c > 0 THEN << <<index - 1, index>> >> ELSE <<>>)

\* the union calls of part_2's loop body at one cell, in order
CellUnions(grid, index) ==
    LET r == index \div grid.width
        c == index % grid.width
        cell == grid.data[index]
    IN  IF cell # B9
        THEN (IF r > 0 /\ GridIndex(grid, r - 1, c) # B9
              THEN << <<index - grid.width, index>> >>
              ELSE <<>>)
             \o (IF c > 0 /\ grid.data[r * grid.width + (c - 1)] # B9
                 THEN << <<index - 1, index>> >>
                 ELSE <<>>)
        ELSE <<>>

\* biggest.push(cmp::Reverse(size)): the heap is kept as its sizes, smallest first
RECURSIVE HeapPush(_, _)
HeapPush(heap, size) ==
    IF heap = <<>> \/ size <= Head(heap)
    THEN <<size>> \o heap
    ELSE <<Head(heap)>> \o HeapPush(Tail(heap), size)

\* a pop that takes the largest size, as a heap without cmp::Reverse does
HeapPopLargest(heap) == SubSeq(heap, 1, Len(heap) - 1)

\* biggest.pop(): the greatest Reverse, which is the smallest size, goes
HeapPop(heap) == Tail(heap)

\* .product() of the sizes left in the heap
RECURSIVE Product(_)
Product(heap) == IF heap = <<>> THEN 1 ELSE Head(heap) * Product(Tail(heap))

(***************************************************************************)
(* part_2 of day 9 run on a grid: SpecDay9                                 *)
(***************************************************************************)
\* the widths and heights of the grids of up to n cells
Shapes(n) == {wh \in (1..n) \X (1..n) : wh[1] * wh[2] <= n}

\* part_2 is given the example, or a grid of up to MaxCells9 cells, each '0' or '9'
InitDay9 ==
    /\ \/ grid9 = parse(EXAMPLE9)
       \/ \E wh \in Shapes(MaxCells9) :
             \E data \in [1..(wh[1] * wh[2]) -> {B0, B9}] :
                grid9 = GridNew(data, wh[1], wh[2])
    /\ nodes = new(grid9.width * grid9.height)
    /\ joined = {}
    /\ ret = Returned("new", FALSE, FALSE)
    /\ pc9 = "scan"
    /\ index9 = 0
    /\ sizes9 = <<>>
    /\ biggest = <<>>
    /\ result9 = 0
    /\ NoCaller
    /\ NoDay11
    /\ NoGrid

\* one round of the two for loops: the cell at index9
ScanCell ==
    /\ pc9 = "scan"
    /\ index9 < grid9.width * grid9.height
    /\ LET us == CellUnions(grid9, index9)
           u1 == IF Len(us) >= 1 THEN union(nodes, us[1][1], us[1][2])
                                 ELSE [nodes |-> nodes, ok |-> FALSE]
           u2 == IF Len(us) >= 2 THEN union(u1.nodes, us[2][1], us[2][2])
                                 ELSE u1
       IN  /\ nodes' = u2.nodes
           /\ joined' = joined \cup {{us[k][1], us[k][2]} : k \in DOMAIN us}
           /\ ret' = IF Len(us) >= 2
                         THEN Returned("union", u2.ok, u2.nodes # u1.nodes)
                      ELSE IF Len(us) = 1
                         THEN Returned("union", u1.ok, u1.nodes # nodes)
                      ELSE ret
    /\ index9' = index9 + 1
    /\ UNCHANGED <<grid9, pc9, sizes9, biggest, result9, exceptD9>>

\* the loops are over: the heap is made and root_sizes() called
ScanEnd ==
    /\ pc9 = "scan"
    /\ index9 = grid9.width * grid9.height
    /\ pc9' = "rank"
    /\ sizes9' = root_sizes(nodes)
    /\ biggest' = <<>>
    /\ UNCHANGED <<ufVars, grid9, index9, result9, exceptD9>>

\* one round of the for loop over root_sizes()
RankSize ==
    /\ pc9 = "rank"
    /\ sizes9 # <<>>
    /\ LET grown == HeapPush(biggest, Head(sizes9))
       IN  biggest' = IF Len(grown) > 3 THEN HeapPop(grown) ELSE grown
    /\ sizes9' = Tail(sizes9)
    /\ UNCHANGED <<ufVars, grid9, pc9, index9, result9, exceptD9>>

\* the product is returned
Return9 ==
    /\ pc9 = "rank"
    /\ sizes9 = <<>>
    /\ result9' = Product(biggest)
    /\ pc9' = "done"
    /\ UNCHANGED <<ufVars, grid9, index9, sizes9, biggest, exceptD9>>

NextDay9 == ScanCell \/ ScanEnd \/ RankSize \/ Return9

SpecDay9 == InitDay9 /\ [][NextDay9]_vars

(***************************************************************************)
(* day_11.rs: Grid positions and step                                      *)
(***************************************************************************)
None == [some |-> FALSE]
Some(v) == [some |-> TRUE, val |-> v]

\* Grid::pos_to_index testing the column against the height and the row
\* against the width
PosToIndexSwapped(grid, row, col) ==
    IF col \in 0..(grid.height - 1) /\ row \in 0..(grid.width - 1)
    THEN Some(grid.width * row + col)
    ELSE None

\* Grid::pos_to_index
pos_to_index(grid, row, col) ==
    IF col \in 0..(grid.width - 1) /\ row \in 0..(grid.height - 1)
    THEN Some(grid.width * row + col)
    ELSE None

\* Grid::index_to_pos
index_to_pos(grid, index) ==
    IF index \in 0..(grid.width * grid.height - 1)
    THEN Some(<<index \div grid.width, index % grid.width>>)
    ELSE None

\* *cell += 1 on a u8
U8Inc(v) == (v + 1) % 256

\* the first loop of step: every cell is incremented, and one that reaches ':'
\* is set to '0', queued and counted. The rounds of the loop touch one cell
\* each, so the cells are given cell by cell and the queue holds the indices
\* that reached ':' in the order of the loop, which is ascending.
Scan(data) ==
    LET reached == {index \in DOMAIN data : U8Inc(data[index]) = Colon}
    IN  [data |-> [index \in DOMAIN data |->
                      IF index \in reached THEN B0 ELSE U8Inc(data[index])],
         queue |-> Ascending(reached),
         flashes |-> Cardinality(reached)]

\* lo..hi-1 as a sequence, the order a Rust range is walked in
Range(lo, hi) == [k \in 1..(IF hi > lo THEN hi - lo ELSE 0) |-> lo + k - 1]

Min(a, b) == IF a <= b THEN a ELSE b

\* x.saturating_sub(1)
SaturatingSub1(x) == IF x = 0 THEN 0 ELSE x - 1

\* the positions the two for loops of the drain visit around (row, col), in order
RECURSIVE RowsTimesCols(_, _)
RowsTimesCols(rs, cs) ==
    IF rs = <<>>
    THEN <<>>
    ELSE [k \in 1..Len(cs) |-> <<Head(rs), cs[k]>>] \o RowsTimesCols(Tail(rs), cs)

\* the positions of the drain without the row above: row..row+1 in place of
\* row.saturating_sub(1)..(row + 2).min(height)
WindowNoRowAbove(grid, row, col) ==
    RowsTimesCols(Range(row, Min(row + 2, grid.height)),
                  Range(SaturatingSub1(col), Min(col + 2, grid.width)))

Window(grid, row, col) ==
    RowsTimesCols(Range(SaturatingSub1(row), Min(row + 2, grid.height)),
                  Range(SaturatingSub1(col), Min(col + 2, grid.width)))

\* the body of the inner for loop without the test for '0': a cell that has
\* fired is incremented again
VisitCellNoFiredTest(grid, st, pos) ==
    LET neighbor_index == pos_to_index(grid, pos[1], pos[2])
    IN  IF st.panicked \/ ~neighbor_index.some
        THEN [st EXCEPT !.panicked = TRUE]
        ELSE LET ni == neighbor_index.val
                 neighbor == U8Inc(st.data[ni])
             IN  IF neighbor = Colon
                 THEN [st EXCEPT !.data[ni] = B0,
                                 !.queue = Append(@, ni),
                                 !.flashes = @ + 1]
                 ELSE [st EXCEPT !.data[ni] = neighbor]

\* the body of the inner for loop testing for a value past '9' and leaving the
\* cell as it is: a cell that has fired is queued at every later visit
VisitCellNoReset(grid, st, pos) ==
    LET neighbor_index == pos_to_index(grid, pos[1], pos[2])
    IN  IF st.panicked \/ ~neighbor_index.some
        THEN [st EXCEPT !.panicked = TRUE]
        ELSE LET ni == neighbor_index.val
                 neighbor == U8Inc(st.data[ni])
             IN  IF st.data[ni] # B0
                 THEN IF neighbor >= Colon
                      THEN [st EXCEPT !.data[ni] = neighbor,
                                      !.queue = Append(@, ni),
                                      !.flashes = @ + 1]
                      ELSE [st EXCEPT !.data[ni] = neighbor]
                 ELSE st

\* the body of the inner for loop at position pos; st holds data, queue, flashes
\* and whether an unwrap has panicked
VisitCell(grid, st, pos) ==
    LET neighbor_index == pos_to_index(grid, pos[1], pos[2])
    IN  IF st.panicked \/ ~neighbor_index.some
        THEN [st EXCEPT !.panicked = TRUE]
        ELSE LET ni == neighbor_index.val
                 neighbor == U8Inc(st.data[ni])
             IN  IF st.data[ni] # B0
                 THEN IF neighbor = Colon
                      THEN [st EXCEPT !.data[ni] = B0,
                                      !.queue = Append(@, ni),
                                      !.flashes = @ + 1]
                      ELSE [st EXCEPT !.data[ni] = neighbor]
                 ELSE st

\* the two for loops left at the first neighbour that fires
RECURSIVE VisitAllBreakOnFire(_, _, _)
VisitAllBreakOnFire(grid, st, ps) ==
    IF ps = <<>>
    THEN st
    ELSE LET st2 == VisitCell(grid, st, Head(ps))
         IN  IF st2.flashes > st.flashes
             THEN st2
             ELSE VisitAllBreakOnFire(grid, st2, Tail(ps))

RECURSIVE VisitAll(_, _, _)
VisitAll(grid, st, ps) ==
    IF ps = <<>> THEN st ELSE VisitAll(grid, VisitCell(grid, st, Head(ps)), Tail(ps))

\* one round of the while loop of step, index being the popped index
Drain(grid, st, index) ==
    LET pos == index_to_pos(grid, index)
    IN  IF ~pos.some
        THEN [st EXCEPT !.panicked = TRUE]
        ELSE VisitAll(grid, st, Window(grid, pos.val[1], pos.val[2]))

\* step is called: queue.clear(), flashes = 0 and the first loop
StepScan ==
    /\ pc11 = "call"
    /\ LET s == Scan(grid11.data)
       IN  /\ grid11' = [grid11 EXCEPT !.data = s.data]
           /\ queue' = s.queue
           /\ pushed' = s.queue
           /\ flashes' = s.flashes
    /\ pc11' = "drain"
    /\ UNCHANGED <<input11, part, t, total, result11, fired, exceptD11>>

\* one round of the while loop: pop_front and the two for loops
StepPop ==
    /\ pc11 = "drain"
    /\ queue # <<>>
    /\ LET st == Drain(grid11,
                       [data |-> grid11.data, queue |-> Tail(queue),
                        flashes |-> flashes, panicked |-> FALSE],
                       Head(queue))
       IN  /\ grid11' = [grid11 EXCEPT !.data = st.data]
           /\ queue' = st.queue
           /\ pushed' = pushed \o SubSeq(st.queue, Len(queue), Len(st.queue))
           /\ flashes' = st.flashes
           /\ pc11' = IF st.panicked THEN "panic" ELSE "drain"
    /\ UNCHANGED <<input11, part, t, total, result11, fired, exceptD11>>

\* pop_front yields None: step returns flashes
StepReturn ==
    /\ pc11 = "drain"
    /\ queue = <<>>
    /\ pc11' = "returned"
    /\ fired' = Append(fired, flashes)
    /\ UNCHANGED <<input11, grid11, queue, flashes, part, t, total, result11,
                   pushed, exceptD11>>

(***************************************************************************)
(* step called once on a grid of digits: SpecStep                          *)
(***************************************************************************)
\* the cell values the grids are drawn from: '0', '7', '8', '9'
CellBytes == {B0, B9 - 2, B9 - 1, B9}

\* step is given a grid of up to MaxCells11 cells, each one of CellBytes
InitStep ==
    /\ \E wh \in Shapes(MaxCells11) :
         \E data \in [1..(wh[1] * wh[2]) -> CellBytes] :
            input11 = GridNew(data, wh[1], wh[2])
    /\ grid11 = input11
    /\ queue = <<>>
    /\ flashes = 0
    /\ pc11 = "call"
    /\ part = 0
    /\ t = 0
    /\ total = 0
    /\ result11 = 0
    /\ fired = <<>>
    /\ pushed = <<>>
    /\ nodes = <<>>
    /\ joined = {}
    /\ ret = Returned("new", FALSE, FALSE)
    /\ NoCaller
    /\ NoDay9
    /\ NoGrid

NextStep == StepScan \/ StepPop \/ StepReturn

SpecStep == InitStep /\ [][NextStep]_vars

(***************************************************************************)
(* day_11.rs: part_1 and part_2, run on a grid: SpecDay11                  *)
(***************************************************************************)
\* the number of steps part_1 makes
Steps1 == 100

\* tests::EXAMPLE of day_11.rs
EXAMPLE11 ==
    ExampleText(<< <<5, 4, 8, 3, 1, 4, 3, 2, 2, 3>>,
                   <<2, 7, 4, 5, 8, 5, 4, 7, 1, 1>>,
                   <<5, 2, 6, 4, 5, 5, 6, 1, 7, 3>>,
                   <<6, 1, 4, 1, 3, 3, 6, 1, 4, 6>>,
                   <<6, 3, 5, 7, 3, 8, 5, 4, 7, 8>>,
                   <<4, 1, 6, 7, 5, 2, 4, 6, 4, 5>>,
                   <<2, 1, 7, 6, 8, 4, 1, 7, 2, 1>>,
                   <<6, 8, 8, 2, 8, 8, 1, 1, 3, 4>>,
                   <<4, 8, 4, 6, 8, 4, 8, 5, 5, 4>>,
                   <<5, 2, 8, 3, 7, 5, 1, 5, 2, 6>> >>)

\* part_1 or part_2 is entered, given the example or a grid of up to MaxCellsLoop
\* cells, each one of CellBytes: the grid is cloned, the queue made
InitDay11 ==
    /\ \/ input11 = parse(EXAMPLE11)
       \/ \E wh \in Shapes(MaxCellsLoop) :
             \E data \in [1..(wh[1] * wh[2]) -> CellBytes] :
                input11 = GridNew(data, wh[1], wh[2])
    /\ grid11 = input11
    /\ part \in {1, 2}
    /\ queue = <<>>
    /\ flashes = 0
    /\ pc11 = "call"
    /\ t = IF part = 1 THEN 0 ELSE 1
    /\ total = 0
    /\ result11 = 0
    /\ fired = <<>>
    /\ pushed = <<>>
    /\ nodes = <<>>
    /\ joined = {}
    /\ ret = Returned("new", FALSE, FALSE)
    /\ NoCaller
    /\ NoDay9
    /\ NoGrid

\* part_1 with total = flashes in place of total += flashes
Part1Overwrite ==
    /\ pc11 = "returned"
    /\ part = 1
    /\ total' = flashes
    /\ t' = t + 1
    /\ IF t + 1 < Steps1
       THEN pc11' = "call" /\ UNCHANGED result11
       ELSE pc11' = "done" /\ result11' = flashes
    /\ UNCHANGED <<input11, grid11, queue, flashes, part, fired, pushed, exceptD11>>

\* part_1: total += flashes, then the next round of for _ in 0..100 or the return
Part1Add ==
    /\ pc11 = "returned"
    /\ part = 1
    /\ total' = total + flashes
    /\ t' = t + 1
    /\ IF t + 1 < Steps1
       THEN pc11' = "call" /\ UNCHANGED result11
       ELSE pc11' = "done" /\ result11' = total + flashes
    /\ UNCHANGED <<input11, grid11, queue, flashes, part, fired, pushed, exceptD11>>

\* part_2 returning the number of steps made before the one that fired every cell
Part2CountsFromZero ==
    /\ pc11 = "returned"
    /\ part = 2
    /\ IF flashes = grid11.width * grid11.height
       THEN pc11' = "done" /\ result11' = t - 1 /\ UNCHANGED t
       ELSE /\ pc11' = IF t < MaxT THEN "call" ELSE "capped"
            /\ t' = t + 1
            /\ UNCHANGED result11
    /\ UNCHANGED <<input11, grid11, queue, flashes, part, total, fired, pushed,
                   exceptD11>>

\* part_2: return t when every cell has flashed, else the next round of for t in 1..
Part2Test ==
    /\ pc11 = "returned"
    /\ part = 2
    /\ IF flashes = grid11.width * grid11.height
       THEN pc11' = "done" /\ result11' = t /\ UNCHANGED t
       ELSE /\ pc11' = IF t < MaxT THEN "call" ELSE "capped"
            /\ t' = t + 1
            /\ UNCHANGED result11
    /\ UNCHANGED <<input11, grid11, queue, flashes, part, total, fired, pushed,
                   exceptD11>>

NextDay11 == StepScan \/ StepPop \/ StepReturn \/ Part1Add \/ Part2Test

SpecDay11 == InitDay11 /\ [][NextDay11]_vars

(***************************************************************************)
(* step as a whole, and step with the orders left open: SpecAnyOrder       *)
(***************************************************************************)
\* the while loop of step run to the end; pushes holds the indices pushed
RECURSIVE DrainAll(_, _, _)
DrainAll(grid, st, pushes) ==
    IF st.queue = <<>> \/ st.panicked
    THEN [data |-> st.data, flashes |-> st.flashes, pushed |-> pushes,
          panicked |-> st.panicked]
    ELSE LET st2 == Drain(grid, [st EXCEPT !.queue = Tail(@)], Head(st.queue))
         IN  DrainAll(grid, st2,
                      pushes \o SubSeq(st2.queue, Len(st.queue), Len(st2.queue)))

\* step(grid, queue): the cells after the call, the returned count and the
\* indices pushed, in the order of the pushes
step(grid) ==
    LET s == Scan(grid.data)
    IN  DrainAll(grid,
                 [data |-> s.data, queue |-> s.queue, flashes |-> s.flashes,
                  panicked |-> FALSE],
                 s.queue)

\* the largest grid step is given when the orders are left open
MaxCellsOrder == 4

\* s without its k-th element
RemoveAt(s, k) == SubSeq(s, 1, k - 1) \o SubSeq(s, k + 1, Len(s))

\* the sequences that hold the elements of s in some order
Orders(s) == {[j \in DOMAIN s |-> s[p[j]]] : p \in Permutations(DOMAIN s)}

InitAnyOrder ==
    /\ \E wh \in Shapes(MaxCellsOrder) :
         \E data \in [1..(wh[1] * wh[2]) -> CellBytes] :
            input11 = GridNew(data, wh[1], wh[2])
    /\ grid11 = input11
    /\ queue = <<>>
    /\ flashes = 0
    /\ pc11 = "call"
    /\ part = 0
    /\ t = 0
    /\ total = 0
    /\ result11 = 0
    /\ fired = <<>>
    /\ pushed = <<>>
    /\ nodes = <<>>
    /\ joined = {}
    /\ ret = Returned("new", FALSE, FALSE)
    /\ NoCaller
    /\ NoDay9
    /\ NoGrid

\* one round of the while loop with any pending index taken from the queue
\* and the positions of the two for loops visited in any order
StepPopAny ==
    /\ pc11 = "drain"
    /\ \E k \in DOMAIN queue :
         LET pos == index_to_pos(grid11, queue[k])
             st0 == [data |-> grid11.data, queue |-> RemoveAt(queue, k),
                     flashes |-> flashes, panicked |-> FALSE]
         IN  \E order \in IF pos.some
                          THEN Orders(Window(grid11, pos.val[1], pos.val[2]))
                          ELSE {<<>>} :
               LET st == IF pos.some
                         THEN VisitAll(grid11, st0, order)
                         ELSE [st0 EXCEPT !.panicked = TRUE]
               IN  /\ grid11' = [grid11 EXCEPT !.data = st.data]
                   /\ queue' = st.queue
                   /\ pushed' = pushed \o SubSeq(st.queue, Len(queue), Len(st.queue))
                   /\ flashes' = st.flashes
                   /\ pc11' = IF st.panicked THEN "panic" ELSE "drain"
    /\ UNCHANGED <<input11, part, t, total, result11, fired, exceptD11>>

NextAnyOrder == StepScan \/ StepPopAny \/ StepReturn

SpecAnyOrder == InitAnyOrder /\ [][NextAnyOrder]_vars

(***************************************************************************)
(* Grid::new called with any arguments, and the Grid read: SpecGrid        *)
(***************************************************************************)
\* Grid::new is given up to MaxGridLen elements and a width and a height of up
\* to MaxGridLen
MaxGridLen == 4

\* the elements the data is drawn from: '0', '1', '9'
GridBytes == {B0, B0 + 1, B9}

SeqsUpTo(S, n) == UNION {[1..k -> S] : k \in 0..n}

InitGrid ==
    /\ \E data \in SeqsUpTo(GridBytes, MaxGridLen) :
         \E width \in 0..MaxGridLen, height \in 0..MaxGridLen :
            given = [data |-> data, width |-> width, height |-> height]
    /\ made = Panicked
    /\ pcG = "new"
    /\ read = [some |-> FALSE]
    /\ text = <<>>
    /\ nodes = <<>>
    /\ joined = {}
    /\ ret = Returned("new", FALSE, FALSE)
    /\ NoCaller
    /\ NoDay9
    /\ NoDay11

\* Grid::new(data, width, height)
MakeGrid ==
    /\ pcG = "new"
    /\ made' = GridNew(given.data, given.width, given.height)
    /\ pcG' = "made"
    /\ UNCHANGED <<given, read, text, exceptGrid>>

\* grid[[row, col]] on the Grid that Grid::new returned
ReadCell ==
    /\ pcG = "made"
    /\ made # Panicked
    /\ \E row \in 0..MaxGridLen, col \in 0..MaxGridLen :
          read' = [some |-> TRUE, row |-> row, col |-> col,
                   val |-> GridIndex(made, row, col)]
    /\ UNCHANGED <<given, made, pcG, text, exceptGrid>>

NextGrid == MakeGrid \/ ReadCell

SpecGrid == InitGrid /\ [][NextGrid]_vars

(***************************************************************************)
(* The calls that are to return whatever they are given: find and union on *)
(* indices below n, step on a grid of digits: SpecNoFail                   *)
(***************************************************************************)
InitNoFail == InitUF \/ InitStep

NextNoFail == NextUF \/ NextStep

SpecNoFail == InitNoFail /\ [][NextNoFail]_vars

(***************************************************************************)
(* parse called with any text, and the Grid read: SpecParse                *)
(***************************************************************************)
\* parse is given up to MaxTextLen bytes
MaxTextLen == 6

\* the bytes the text is drawn from: '0', '9' and the newline
TextBytes == {B0, B9, NL}

InitParse ==
    /\ text \in SeqsUpTo(TextBytes, MaxTextLen)
    /\ given = [data |-> <<>>, width |-> 0, height |-> 0]
    /\ made = Panicked
    /\ pcG = "parse"
    /\ read = [some |-> FALSE]
    /\ nodes = <<>>
    /\ joined = {}
    /\ ret = Returned("new", FALSE, FALSE)
    /\ NoCaller
    /\ NoDay9
    /\ NoDay11

\* parse(input): the loop over the rows, then Grid::new
ParseText ==
    /\ pcG = "parse"
    /\ made' = parse(text)
    /\ pcG' = "made"
    /\ UNCHANGED <<given, read, text, exceptGrid>>

NextParse == ParseText \/ ReadCell

SpecParse == InitParse /\ [][NextParse]_vars

(***************************************************************************)
(* day_09.rs: part_1 run on a grid: its rounds are part of SpecNeighbours  *)
(***************************************************************************)
\* the positions the arms of the match of part_1 read at (r, c), in the order
\* of the arms, each one there when the first half of its guard holds
Part1Arms(grid, r, c) ==
    (IF r > 0 THEN << <<r - 1, c>> >> ELSE <<>>)
    \o (IF c > 0 THEN << <<r, c - 1>> >> ELSE <<>>)
    \o (IF r + 1 < grid.height THEN << <<r + 1, c>> >> ELSE <<>>)
    \o (IF c + 1 < grid.width THEN << <<r, c + 1>> >> ELSE <<>>)

\* the arms whose guard is evaluated at (r, c): those up to the first one
\* that reads a value <= center
Part1Compared(grid, r, c) ==
    LET arms == Part1Arms(grid, r, c)
        center == GridIndex(grid, r, c)
        hits == {k \in DOMAIN arms : GridIndex(grid, arms[k][1], arms[k][2]) <= center}
    IN  IF hits = {}
        THEN arms
        ELSE SubSeq(arms, 1, Ascending(hits)[1])

\* the value of the match at (r, c): 0 when an arm reads a value <= center,
\* else u32::from(center - b'0' + 1)
RiskAt(grid, r, c) ==
    LET arms == Part1Arms(grid, r, c)
        center == GridIndex(grid, r, c)
    IN  IF \E k \in DOMAIN arms : GridIndex(grid, arms[k][1], arms[k][2]) <= center
        THEN 0
        ELSE center - B0 + 1

\* part_1 is explored on the example and on every grid of up to MaxCellsRisk cells
MaxCellsRisk == 6

\* part_1 is given the example, or a grid of '0', '1' and '9'
InitPart1 ==
    /\ \/ grid9 = parse(EXAMPLE9)
       \/ \E wh \in Shapes(MaxCellsRisk) :
             \E data \in [1..(wh[1] * wh[2]) -> GridBytes] :
                grid9 = GridNew(data, wh[1], wh[2])
    /\ pc9 = "risk"
    /\ index9 = 0
    /\ sizes9 = <<>>
    /\ biggest = <<>>
    /\ result9 = 0
    /\ nodes = <<>>
    /\ joined = {}
    /\ ret = Returned("new", FALSE, FALSE)
    /\ NoCaller
    /\ NoDay11
    /\ NoGrid

\* one round of the two for loops of part_1: risk += match grid[[r, c]] ...
\* result9 holds risk and index9 is r * width + c
RiskCell ==
    /\ pc9 = "risk"
    /\ index9 < grid9.width * grid9.height
    /\ result9' = result9 + RiskAt(grid9, index9 \div grid9.width, index9 % grid9.width)
    /\ index9' = index9 + 1
    /\ UNCHANGED <<ufVars, grid9, pc9, sizes9, biggest, exceptD9>>

\* the loops are over: risk is returned
RiskReturn ==
    /\ pc9 = "risk"
    /\ index9 = grid9.width * grid9.height
    /\ pc9' = "done"
    /\ UNCHANGED <<ufVars, grid9, index9, sizes9, biggest, result9, exceptD9>>

NextPart1 == RiskCell \/ RiskReturn

(***************************************************************************)
(* The cells around a cell, as step and part_1 take them: SpecNeighbours   *)
(***************************************************************************)
InitNeighbours == InitPart1 \/ InitStep

NextNeighbours == NextPart1 \/ NextStep

SpecNeighbours == InitNeighbours /\ [][NextNeighbours]_vars

(***************************************************************************)
(* Notions the UnionFind properties are stated with                        *)
(***************************************************************************)
\* the root the parent chain of i ends at, read without changing anything
RECURSIVE Root(_, _)
Root(ns, i) == IF ns[i].parent = i THEN i ELSE Root(ns, ns[i].parent)

\* the indices whose parent chain ends at r
Members(ns, r) == {i \in DOMAIN ns : Root(ns, i) = r}

Roots(ns) == {r \in DOMAIN ns : ns[r].parent = r}

\* the indices linked to those of S by a chain of the pairs of E
RECURSIVE Linked(_, _)
Linked(S, E) ==
    LET T == S \cup UNION {e \in E : e \cap S # {}}
    IN  IF T = S THEN S ELSE Linked(T, E)

\* s[lo] + ... + s[hi]
RECURSIVE SumFromTo(_, _, _)
SumFromTo(s, lo, hi) ==
    IF lo > hi THEN 0
    ELSE IF lo = hi THEN s[lo]
    ELSE LET mid == (lo + hi) \div 2
         IN  SumFromTo(s, lo, mid) + SumFromTo(s, mid + 1, hi)

SumSeq(s) == SumFromTo(s, 1, Len(s))

\* ns and ms have the same root for every index, and the same size at every root
SamePartitionAndSizes(ns, ms) ==
    /\ \A i \in DOMAIN ns : Root(ms, i) = Root(ns, i)
    /\ \A r \in Roots(ns) : ms[r].size = ns[r].size

(***************************************************************************)
(* C1: find(x) == find(y) exactly when x and y are linked by a chain of    *)
(* the union calls made so far (x == y counts as linked).                  *)
(***************************************************************************)
C1_FindEqualIffConnected ==
    \A x \in DOMAIN nodes :
        LET fx == find(nodes, x)
            linked == Linked({x}, joined)
        IN  \A y \in DOMAIN nodes :
                (fx.index = find(fx.nodes, y).index) <=> (y \in linked)

\* after a union, two indices linked only through a third, and one linked to neither
C1_Witness ==
    /\ ret.op = "union"
    /\ \E x, y, z \in DOMAIN nodes :
        /\ x # y
        /\ {x, y} \notin joined
        /\ y \in Linked({x}, joined)
        /\ z \notin Linked({x}, joined)

(***************************************************************************)
(* C2: after any sequence of union and find calls on new(n), the values    *)
(* root_sizes() yields sum to n.                                           *)
(***************************************************************************)
C2_RootSizesSumToN == SumSeq(root_sizes(nodes)) = NumNodes(nodes)

\* a union has joined two sets, and root_sizes yields several sizes, one above 2
C2_Witness ==
    /\ ret.op = "union"
    /\ ret.ok
    /\ Len(root_sizes(nodes)) >= 2
    /\ \E k \in 1..Len(root_sizes(nodes)) : root_sizes(nodes)[k] >= 3

(***************************************************************************)
(* C3: new(n) makes every index its own root with size 1, and at every     *)
(* time the size of a root is the number of indices whose parent chain     *)
(* ends at it.                                                             *)
(***************************************************************************)
C3_RootSizeCountsMembers ==
    /\ ret.op = "new" =>
        \A i \in DOMAIN nodes : nodes[i].parent = i /\ nodes[i].size = 1
    /\ \A r \in Roots(nodes) : nodes[r].size = Cardinality(Members(nodes, r))

\* a root of at least three indices, one of them two links away from it
C3_Witness ==
    \E r \in Roots(nodes) :
        /\ nodes[r].size >= 3
        /\ \E i \in Members(nodes, r) :
            nodes[i].parent # r /\ nodes[i].parent # i

(***************************************************************************)
(* C4: find(x) leaves the root of every index and the size of every root   *)
(* as they were, and find(x) called again at once returns the same root.   *)
(***************************************************************************)
C4_FindKeepsPartition ==
    \A x \in DOMAIN nodes :
        LET f == find(nodes, x)
        IN  /\ SamePartitionAndSizes(nodes, f.nodes)
            /\ find(f.nodes, x).index = f.index

\* a find has just rewritten a parent pointer
C4_Witness == ret.op = "find" /\ ret.changed

(***************************************************************************)
(* C5: union(x, y) for x and y already in the same set, union(x, x)        *)
(* included, returns false and changes neither the root of any index nor   *)
(* the size of any root.                                                   *)
(***************************************************************************)
C5_UnionOfJoinedIsNoOp ==
    \A x, y \in DOMAIN nodes :
        Root(nodes, x) = Root(nodes, y) =>
            LET u == union(nodes, x, y)
            IN  ~u.ok /\ SamePartitionAndSizes(nodes, u.nodes)

\* a union of two indices of one set has returned false, having rewritten a pointer
C5_Witness == ret.op = "union" /\ ~ret.ok /\ ret.changed

(***************************************************************************)
(* C6: whatever order a fixed multiset of union calls is made in on        *)
(* new(n), the final partition and the multiset of root sizes are the same *)
(* (here: the same as when the calls are made in the order of the list).   *)
(***************************************************************************)
\* the nodes after the calls of cs made first to last
RECURSIVE InListOrder(_, _)
InListOrder(ns, cs) ==
    IF cs = <<>>
    THEN ns
    ELSE InListOrder(union(ns, Head(cs)[1], Head(cs)[2]).nodes, Tail(cs))

Partition(ns) == {Members(ns, r) : r \in Roots(ns)}

\* how many roots have each size
SizeCounts(ns) ==
    [k \in 1..NumNodes(ns) |-> Cardinality({r \in Roots(ns) : ns[r].size = k})]

C6_OrderOfUnionsIrrelevant ==
    pending = {} =>
        LET ref == InListOrder(new(NumNodes(nodes)), calls)
        IN  /\ Partition(nodes) = Partition(ref)
            /\ SizeCounts(nodes) = SizeCounts(ref)

\* three calls made in another order have built a different tree over a set of 3
C6_Witness ==
    /\ pending = {}
    /\ Len(calls) >= 3
    /\ nodes # InListOrder(new(NumNodes(nodes)), calls)
    /\ \E r \in Roots(nodes) : nodes[r].size >= 3

(***************************************************************************)
(* C7: day 9 part_2 unions exactly the pairs of orthogonally adjacent      *)
(* cells that both differ from '9', so its sets are the maximal            *)
(* 4-connected regions of such cells; with at least three roots it returns *)
(* the product of the three largest root sizes; on the example, 1134.      *)
(***************************************************************************)
Cells(grid) == 0..(grid.width * grid.height - 1)

NotNine(grid) == {i \in Cells(grid) : grid.data[i] # B9}

\* cells one step apart in a row or in a column
Adjacent(grid, i, j) ==
    LET ri == i \div grid.width
        ci == i % grid.width
        rj == j \div grid.width
        cj == j % grid.width
    IN  \/ ri = rj /\ (ci = cj + 1 \/ cj = ci + 1)
        \/ ci = cj /\ (ri = rj + 1 \/ rj = ri + 1)

AdjacentPairs(grid) ==
    {{i, j} : <<i, j>> \in {p \in NotNine(grid) \X NotNine(grid) :
                                Adjacent(grid, p[1], p[2])}}

RECURSIVE Largest(_)
Largest(s) ==
    IF Len(s) = 1
    THEN Head(s)
    ELSE LET m == Largest(Tail(s)) IN IF Head(s) >= m THEN Head(s) ELSE m

\* s without one occurrence of v
RECURSIVE Without(_, _)
Without(s, v) ==
    IF Head(s) = v THEN Tail(s) ELSE <<Head(s)>> \o Without(Tail(s), v)

\* the product of the three largest values of s, which holds at least three
ThreeLargestProduct(s) ==
    LET a == Largest(s)
        s1 == Without(s, a)
        b == Largest(s1)
        c == Largest(Without(s1, b))
    IN  a * b * c

C7_Part2BasinsAndProduct ==
    pc9 = "done" =>
        /\ joined = AdjacentPairs(grid9)
        /\ \A i \in NotNine(grid9) :
            {j \in NotNine(grid9) : Root(nodes, j) = Root(nodes, i)}
                = Linked({i}, AdjacentPairs(grid9))
        /\ Len(root_sizes(nodes)) >= 3 =>
            result9 = ThreeLargestProduct(root_sizes(nodes))
        /\ grid9 = parse(EXAMPLE9) => result9 = 1134

\* part_2 has returned on the example, which has more than three roots
C7_Witness ==
    /\ pc9 = "done"
    /\ grid9 = parse(EXAMPLE9)
    /\ Len(root_sizes(nodes)) > 3
    /\ result9 = 1134

(***************************************************************************)
(* C8: day 11 part_1 returns the sum of the counts that exactly 100        *)
(* consecutive step calls return, the first one on a copy of the grid it   *)
(* is given; on the example the sum is 1656.                               *)
(***************************************************************************)
C8_Part1SumsHundredSteps ==
    /\ part = 1 /\ fired = <<>> /\ pc11 = "call" => grid11 = input11
    /\ part = 1 /\ pc11 = "done" =>
        /\ Len(fired) = 100
        /\ result11 = SumSeq(fired)
        /\ input11 = parse(EXAMPLE11) => result11 = 1656

\* part_1 has returned on the example
C8_Witness ==
    part = 1 /\ pc11 = "done" /\ input11 = parse(EXAMPLE11) /\ result11 = 1656

(***************************************************************************)
(* C9: day 11 part_2 returns the number t, counted from 1, of the first    *)
(* step in which the fired count is width * height: step t fires every     *)
(* cell and no earlier step does; on the example t is 195.                 *)
(***************************************************************************)
C9_Part2FirstFullFlash ==
    part = 2 /\ pc11 = "done" =>
        /\ result11 = Len(fired)
        /\ fired[result11] = input11.width * input11.height
        /\ \A k \in 1..(result11 - 1) : fired[k] # input11.width * input11.height
        /\ input11 = parse(EXAMPLE11) => result11 = 195

\* part_2 has returned on the example
C9_Witness ==
    part = 2 /\ pc11 = "done" /\ input11 = parse(EXAMPLE11) /\ result11 = 195

(***************************************************************************)
(* C10: when step returns on a grid of digits, the queue is empty, every   *)
(* cell is a digit again, every cell that reached ':' during the step      *)
(* holds '0', and the returned count is the number of distinct cells that  *)
(* fired, which is the number of cells that hold '0'.                      *)
(***************************************************************************)
Elements(s) == {s[k] : k \in DOMAIN s}

C10_StepPostcondition ==
    pc11 = "returned" =>
        /\ queue = <<>>
        /\ \A i \in DOMAIN grid11.data : grid11.data[i] \in B0..B9
        /\ \A i \in Elements(pushed) : grid11.data[i] = B0
        /\ fired[Len(fired)] = Cardinality(Elements(pushed))
        /\ fired[Len(fired)] =
            Cardinality({i \in DOMAIN grid11.data : grid11.data[i] = B0})

\* step has returned after a cell below '9' fired, with a cell left unfired
C10_Witness ==
    /\ pc11 = "returned"
    /\ \E i \in Elements(pushed) : input11.data[i] # B9
    /\ \E i \in DOMAIN grid11.data : grid11.data[i] # B0

(***************************************************************************)
(* C11: at every point of one call of step on a grid of digits, no cell    *)
(* index has been pushed onto the queue twice, so no cell fires twice, the *)
(* count is the number of indices pushed so far, and neither it nor the    *)
(* returned count exceeds width * height.                                  *)
(***************************************************************************)
C11_PushedAtMostOnce ==
    /\ Cardinality(Elements(pushed)) = Len(pushed)
    /\ \A k \in DOMAIN queue :
          Cardinality({j \in DOMAIN queue : queue[j] = queue[k]}) = 1
    /\ pc11 \in {"drain", "returned"} =>
          /\ flashes = Len(pushed)
          /\ flashes <= grid11.width * grid11.height
    /\ pc11 = "returned" =>
          fired[Len(fired)] <= grid11.width * grid11.height

\* step has returned after a cell that had fired was visited again, from a
\* cell that the drain loop pushed
C11_Witness ==
    /\ pc11 = "returned"
    /\ Len(pushed) >= 3
    /\ \E k \in DOMAIN input11.data : input11.data[k] # B9 /\ k \in Elements(pushed)
    /\ flashes = grid11.width * grid11.height

(***************************************************************************)
(* C12: whatever order the pending indices are taken from the queue in and *)
(* whatever order the neighbours of a popped cell are visited in, a step   *)
(* on a grid of digits ends with the set of fired cells, the count and the *)
(* grid that step ends with in the order of the code.                      *)
(***************************************************************************)
C12_OrderOfDrainIrrelevant ==
    pc11 = "returned" =>
        LET r == step(input11)
        IN  /\ ~r.panicked
            /\ Elements(pushed) = Elements(r.pushed)
            /\ flashes = r.flashes
            /\ fired[Len(fired)] = r.flashes
            /\ grid11.data = r.data

\* a step has returned after three or more cells fired, pushed in an order
\* that is not the order of the code
C12_Witness ==
    /\ pc11 = "returned"
    /\ Len(pushed) >= 3
    /\ pushed # step(input11).pushed
    /\ \E i \in DOMAIN grid11.data : grid11.data[i] # B0

(***************************************************************************)
(* C13: Grid::new(data, width, height) panics whenever the length of data  *)
(* is not width * height; otherwise it returns a Grid that holds exactly   *)
(* data, width and height, so width * height is the length of the data of  *)
(* every Grid it returns.                                                  *)
(***************************************************************************)
C13_NewChecksLength ==
    pcG = "made" =>
        IF Len(given.data) # given.width * given.height
        THEN made = Panicked
        ELSE /\ made # Panicked
             /\ made.width = given.width
             /\ made.height = given.height
             /\ DOMAIN made.data = 0..(Len(given.data) - 1)
             /\ \A i \in DOMAIN made.data : made.data[i] = given.data[i + 1]
             /\ made.width * made.height = Cardinality(DOMAIN made.data)

\* Grid::new has returned a Grid with more than one row and column
C13_Witness ==
    /\ pcG = "made"
    /\ made # Panicked
    /\ made.width > 1
    /\ made.height > 1

(***************************************************************************)
(* C14: grid[[row, col]] panics whenever row >= height or col >= width;    *)
(* otherwise it yields data[row * width + col], so that reading every      *)
(* position row by row yields the sequence the Grid was made from.         *)
(***************************************************************************)
C14_IndexIsRowMajor ==
    pcG = "made" /\ made # Panicked =>
        /\ read.some =>
             IF read.row >= made.height \/ read.col >= made.width
             THEN read.val = Panic
             ELSE read.val = given.data[read.row * given.width + read.col + 1]
        /\ LET positions == RowsTimesCols(Range(0, made.height), Range(0, made.width))
           IN  /\ Len(positions) = Len(given.data)
               /\ \A k \in DOMAIN positions :
                     GridIndex(made, positions[k][1], positions[k][2]) = given.data[k]

\* a cell off the diagonal of a Grid with two rows and two columns has been
\* read, and it differs from the cell across the diagonal
C14_Witness ==
    /\ pcG = "made"
    /\ made # Panicked
    /\ made.width = 2
    /\ made.height = 2
    /\ read.some
    /\ read.row = 1
    /\ read.col = 0
    /\ read.val # GridIndex(made, 0, 1)

(***************************************************************************)
(* C15: find and union on indices below n, and step on a grid of digits,   *)
(* return and never fail. The vector of nodes keeps its length and every   *)
(* parent is an index of it, find comes back with an index of a root and   *)
(* no size passes n; step never has an unwrap fail, the rounds of its      *)
(* while loop are the indices popped off the front of the pushed ones, at  *)
(* most width * height of them, and no cell wraps around or passes ':'.    *)
(***************************************************************************)
C15_NeverFails ==
    /\ DOMAIN nodes = 0..(NumNodes(nodes) - 1)
    /\ \A i \in DOMAIN nodes :
          /\ nodes[i].parent \in DOMAIN nodes
          /\ nodes[i].size \in 1..NumNodes(nodes)
          /\ LET f == find(nodes, i)
             IN  /\ f.index \in DOMAIN nodes
                 /\ f.nodes[f.index].parent = f.index
                 /\ DOMAIN f.nodes = DOMAIN nodes
    /\ pc11 # "panic"
    /\ pc11 \in {"drain", "returned"} =>
          /\ \A i \in DOMAIN grid11.data : grid11.data[i] \in B0..Colon
          /\ Len(queue) <= Len(pushed)
          /\ queue = SubSeq(pushed, Len(pushed) - Len(queue) + 1, Len(pushed))
          /\ Len(pushed) - Len(queue) <= grid11.width * grid11.height

\* step has returned from a grid with rows and columns of different numbers
\* after its while loop made three rounds or more, a cell ending at '9'
C15_Witness ==
    /\ pc11 = "returned"
    /\ grid11.width > grid11.height
    /\ grid11.height > 1
    /\ Len(pushed) >= 3
    /\ \E i \in DOMAIN grid11.data : grid11.data[i] = B9

(***************************************************************************)
(* C16, as stated: after find(x) returns the root r, every node that was   *)
(* on the parent path from x to r before the call, x included and r        *)
(* excluded, has its parent set directly to r.                             *)
(***************************************************************************)
\* the nodes on the parent path from i to its root, the root excluded
RECURSIVE Path(_, _)
Path(ns, i) == IF ns[i].parent = i THEN {} ELSE {i} \cup Path(ns, ns[i].parent)

\* the nodes the loop of find(i) stops at, the root excluded
RECURSIVE Halved(_, _)
Halved(ns, i) ==
    IF ns[i].parent = i THEN {} ELSE {i} \cup Halved(ns, ns[ns[i].parent].parent)

C16_AllOnPathPointToRoot ==
    \A x \in DOMAIN nodes :
        LET f == find(nodes, x)
        IN  \A p \in Path(nodes, x) : f.nodes[p].parent = f.index

(***************************************************************************)
(* C16, amended: find(x) returns the root r of x; x and every second node  *)
(* after it on the former parent path, r excluded, have their parent set   *)
(* to their former grandparent, every other node keeps its parent and      *)
(* every node keeps its size. Every node of the path points directly to r  *)
(* after the call when the path had at most two links.                     *)
(***************************************************************************)
C16_FindHalvesPath ==
    \A x \in DOMAIN nodes :
        LET f == find(nodes, x)
            stops == Halved(nodes, x)
        IN  /\ f.index = Root(nodes, x)
            /\ \A i \in DOMAIN nodes :
                  /\ f.nodes[i].size = nodes[i].size
                  /\ f.nodes[i].parent =
                        IF i \in stops
                        THEN nodes[nodes[i].parent].parent
                        ELSE nodes[i].parent
            /\ Cardinality(Path(nodes, x)) <= 2 =>
                  \A p \in Path(nodes, x) : f.nodes[p].parent = f.index

\* find has rewritten a path and left a node two links from its root
C16_Witness ==
    /\ ret.op = "find"
    /\ ret.changed
    /\ \E x \in DOMAIN nodes : Cardinality(Path(nodes, x)) = 2

C18_UnionBySize ==
    \A x, y \in DOMAIN nodes :
        LET rx == Root(nodes, x)
            ry == Root(nodes, y)
        IN  rx # ry =>
                LET u == union(nodes, x, y)
                    child == IF nodes[rx].size < nodes[ry].size THEN rx ELSE ry
                    top == IF child = rx THEN ry ELSE rx
                IN  /\ u.ok
                    /\ u.nodes[child].parent = top
                    /\ u.nodes[top].size = nodes[rx].size + nodes[ry].size
                    /\ \A r \in Roots(nodes) \ {child} : u.nodes[r].parent = r

\* a union has joined two sets: a set of three and a set of two are there,
\* beside a set of one
C18_Witness ==
    /\ ret = Returned("union", TRUE, TRUE)
    /\ \E r1, r2, r3 \in Roots(nodes) :
          /\ nodes[r1].size = 3
          /\ nodes[r2].size = 2
          /\ nodes[r3].size = 1

(***************************************************************************)
(* C19: after any sequence of union and find calls on new(n) the parent    *)
(* pointers form a forest: following parent from any index reaches a node  *)
(* that is its own parent within n steps, so no cycle other than the       *)
(* self-loops of the roots exists.                                         *)
(***************************************************************************)
\* the node k parent links up from i
RECURSIVE ParentPow(_, _, _)
ParentPow(ns, i, k) == IF k = 0 THEN i ELSE ParentPow(ns, ns[i].parent, k - 1)

\* the nodes met from i in up to k parent links
RECURSIVE Chain(_, _, _)
Chain(ns, i, k) == IF k = 0 THEN {i} ELSE {i} \cup Chain(ns, ns[i].parent, k - 1)

C19_ParentsFormForest ==
    \A i \in DOMAIN nodes :
        LET n == NumNodes(nodes)
            top == ParentPow(nodes, i, n - 1)
        IN  /\ nodes[top].parent = top
            /\ nodes[i].parent = i \/ i \notin Chain(nodes, nodes[i].parent, n)

\* a tree three links deep has come out of a union
C19_Witness ==
    /\ ret.op = "union"
    /\ ret.ok
    /\ \E i \in DOMAIN nodes :
          /\ ParentPow(nodes, i, 2) # ParentPow(nodes, i, 3)
          /\ nodes[ParentPow(nodes, i, 3)].parent = ParentPow(nodes, i, 3)

(***************************************************************************)
(* C20: part_2 of day 9 never calls union with the index of a cell that    *)
(* holds '9'; every such cell stays its own root with size 1, and when the *)
(* loops are over root_sizes() yields a 1 for it, at its place among the   *)
(* roots.                                                                  *)
(***************************************************************************)
Nines(grid) == {i \in DOMAIN grid.data : grid.data[i] = B9}

C20_NinesStayAlone ==
    /\ \A e \in joined : e \cap Nines(grid9) = {}
    /\ \A i \in Nines(grid9) :
          /\ nodes[i].parent = i
          /\ nodes[i].size = 1
          /\ pc9 \in {"rank", "done"} =>
                root_sizes(nodes)[Cardinality({r \in Roots(nodes) : r <= i})] = 1

\* the loops are over on a grid where a cell holding '9' has a cell above it
\* and a cell left of it that do not, and a cell below it that is in a basin
\* of two cells or more
C20_Witness ==
    /\ pc9 = "rank"
    /\ sizes9 = root_sizes(nodes)
    /\ \E i \in Nines(grid9) :
          /\ i >= grid9.width
          /\ i % grid9.width > 0
          /\ grid9.data[i - 1] # B9
          /\ grid9.data[i - grid9.width] # B9
          /\ i + grid9.width \in DOMAIN grid9.data
          /\ nodes[Root(nodes, i + grid9.width)].size >= 2

(***************************************************************************)
(* C21: during one step on a grid of digits, at every point after the      *)
(* first loop a cell holds '0' exactly when it has fired in this step, and *)
(* the value of a cell that has fired is not changed again before the step *)
(* returns.                                                                *)
(***************************************************************************)
C21_ZeroIffFired ==
    /\ [](pc11 \in {"drain", "returned"} =>
            \A i \in DOMAIN grid11.data :
                grid11.data[i] = B0 <=> i \in Elements(pushed))
    /\ [][pc11 = "drain" =>
            \A i \in Elements(pushed) :
                /\ i \in Elements(pushed')
                /\ grid11'.data[i] = grid11.data[i]]_vars

\* the while loop is over after cells that had fired were visited again: two
\* neighbours fired, one of them in the first loop and one later, a third
\* cell did not fire, and a cell that held '0' before the step holds '1' or more
C21_Witness ==
    /\ pc11 = "drain"
    /\ queue = <<>>
    /\ \E i, j \in Elements(pushed) :
          /\ input11.data[i] = B9
          /\ input11.data[j] # B9
    /\ \E k \in DOMAIN grid11.data : input11.data[k] = B0 /\ grid11.data[k] # B0

(***************************************************************************)
(* C22: parse fails, by the assertion of Grid::new, on every input whose   *)
(* rows, the pieces between its newlines, do not all have the same length. *)
(***************************************************************************)
\* the lengths of the pieces of input between its newlines, first to last
RowLengths(input) ==
    LET newlines == {i \in 1..Len(input) : input[i] = NL}
        ends == Ascending(newlines) \o <<Len(input) + 1>>
    IN  [k \in DOMAIN ends |-> ends[k] - (IF k = 1 THEN 0 ELSE ends[k - 1]) - 1]

Uniform(input) ==
    \A j, k \in DOMAIN RowLengths(input) : RowLengths(input)[j] = RowLengths(input)[k]

C22_RaggedInputPanics ==
    pcG = "made" /\ ~Uniform(text) => made = Panicked

(***************************************************************************)
(* C23: the cells other than the popped cell that the two for loops of     *)
(* step visit are exactly the cells of the grid one step away from it      *)
(* orthogonally or diagonally, and the cells part_1 of day 9 compares a    *)
(* cell with are cells of its orthogonal neighbours in the grid, all of    *)
(* them in its arms and when the cell is a low point. On a grid of one     *)
(* cell both sets are empty; on a grid of two or more rows and columns a   *)
(* corner cell has 3 of the former and 2 of the latter.                    *)
(***************************************************************************)
Positions(grid) == (0..(grid.height - 1)) \X (0..(grid.width - 1))

Dist(a, b) == IF a >= b THEN a - b ELSE b - a

Neighbours8(grid, pos) ==
    {q \in Positions(grid) :
        q # pos /\ Dist(q[1], pos[1]) <= 1 /\ Dist(q[2], pos[2]) <= 1}

Neighbours4(grid, pos) ==
    {q \in Positions(grid) : Dist(q[1], pos[1]) + Dist(q[2], pos[2]) = 1}

IsCorner(grid, pos) ==
    /\ grid.width >= 2
    /\ grid.height >= 2
    /\ pos[1] \in {0, grid.height - 1}
    /\ pos[2] \in {0, grid.width - 1}

Around(grid, i) ==
    {q[1] * grid.width + q[2] :
        q \in Neighbours8(grid, <<i \div grid.width, i % grid.width>>)}

\* Around for every index of the grid
Near(grid) == [i \in DOMAIN grid.data |-> Around(grid, i)]

\* the value index i gets to in a step of grid when the cells of S fire, near
\* being Near(grid)
Charged(grid, near, S, i) == grid.data[i] - B0 + 1 + Cardinality(near[i] \cap S)

\* S holds a cell exactly when the cell gets to 10 or more as the cells of S fire
Closed(grid, near, S) ==
    \A i \in DOMAIN grid.data : i \in S <=> Charged(grid, near, S, i) >= 10

C24_FiredIsLeastFixpoint ==
    pc11 = "returned" =>
        LET F == Elements(pushed)
            near == Near(input11)
        IN  /\ Closed(input11, near, F)
            /\ \A S \in SUBSET DOMAIN input11.data :
                  F \subseteq S \/ ~Closed(input11, near, S)
            /\ \A i \in DOMAIN grid11.data :
                  grid11.data[i] - B0 =
                      IF i \in F THEN 0 ELSE Charged(input11, near, F, i)

\* step has returned after a cell fired from the flashes of others and a cell
\* did not fire, on a grid where a larger set than the fired one also holds
\* exactly the cells it brings to 10
C24_Witness ==
    /\ pc11 = "returned"
    /\ \E i \in Elements(pushed) : input11.data[i] # B9
    /\ \E S \in SUBSET DOMAIN input11.data :
          /\ Closed(input11, Near(input11), S)
          /\ S # Elements(pushed)

(***************************************************************************)
(* C25: for every grid of digits part_2 of day 11 returns: the step calls  *)
(* get to a step that fires every cell. A run that returns finds no grid   *)
(* twice at the head of its loop, for the steps from a grid found twice    *)
(* repeat for ever; so part_2 never finds the grid it was given again, and *)
(* it has returned before it has made MaxT steps, which is more than there *)
(* are grids of digits of MaxCellsLoop cells.                              *)
(***************************************************************************)
C25_Part2Returns ==
    part = 2 =>
        /\ pc11 = "call" /\ t > 1 => grid11 # input11
        /\ pc11 # "capped"

(***************************************************************************)
(* C26: after any sequence of union and find calls on new(n), the depth of *)
(* every index, the number of parent links from it to its root, is at most *)
(* floor(log2(s)) for the size s stored at its root: 2^depth <= s.         *)
(***************************************************************************)
RECURSIVE Pow2(_)
Pow2(k) == IF k = 0 THEN 1 ELSE 2 * Pow2(k - 1)

Depth(ns, i) == Cardinality(Path(ns, i))

C26_DepthAtMostLogSize ==
    \A i \in DOMAIN nodes : Pow2(Depth(nodes, i)) <= nodes[Root(nodes, i)].size

\* a union has left an index three links from a root of size 8, where the
\* bound is met, and another index of the same set nearer to the root
C26_Witness ==
    /\ ret = Returned("union", TRUE, TRUE)
    /\ \E i, j \in DOMAIN nodes :
          /\ Depth(nodes, i) = 3
          /\ nodes[Root(nodes, i)].size = 8
          /\ Root(nodes, j) = Root(nodes, i)
          /\ Depth(nodes, j) = 1

====
